---- MODULE Spec2Model ----
(***************************************************************************)
(* Model of app.py, the file-backed Flask backend of the to-do app.        *)
(*                                                                         *)
(* State: the three JSON files (users.json, todos.json, sessions.json),    *)
(* each with its '<path>.tmp' sibling, and the request threads of the      *)
(* server.  A request is a sequence of steps; every step holds at most one *)
(* access to the file system, so that the interleavings of the model are   *)
(* those of the threads of the server.                                     *)
(*                                                                         *)
(* Encoding of JSON values.  A JSON value is the record [t, v] of its type  *)
(* ("null", "bool", "num", "str", "list", "dict") and its content; a       *)
(* string's content is the sequence of its characters, a list's the        *)
(* sequence of its entries, an object's the function from its keys.  The   *)
(* keys of an object are bare character sequences or field names.          *)
(***************************************************************************)
EXTENDS Integers, Sequences, FiniteSets, TLC

\* ---------------------------------------------------------------- bounds
\* Request threads that may run at the same time.
NProcs == 2
\* Requests served in one behaviour.
MaxReqs == 3
\* The clock (time.time(), datetime.utcnow()) takes the values 0..MaxClock.
MaxClock == 1
\* secrets.token_hex(4) draws from 0..MaxRand.
MaxRand == 1
\* Tokens that secrets.token_urlsafe(32) hands out in one behaviour.
MaxTokens == 3

Procs == 1..NProcs

\* ----------------------------------------------------------- JSON values
JNull == [t |-> "null", v |-> <<>>]
JBool(b) == [t |-> "bool", v |-> b]
JNum(n) == [t |-> "num", v |-> n]
JStr(s) == [t |-> "str", v |-> s]
JList(l) == [t |-> "list", v |-> l]
JDict(d) == [t |-> "dict", v |-> d]

\* Python truthiness of a JSON value: bool(x), `x or default`, `not x`.
Truthy(j) ==
  CASE j.t = "null" -> FALSE
    [] j.t = "bool" -> j.v
    [] j.t = "num" -> j.v # 0
    [] j.t = "dict" -> DOMAIN j.v # {}
    [] OTHER -> j.v # <<>>

\* dict.get(key, default) on the content of an object
Get(d, k, default) == IF k \in DOMAIN d THEN d[k] ELSE default

\* d[k] = x on the content of an object
Put(d, k, x) == [y \in DOMAIN d \cup {k} |-> IF y = k THEN x ELSE d[y]]

\* del d[k]
Del(d, k) == [y \in DOMAIN d \ {k} |-> d[y]]

\* isinstance(x, list)
IsList(j) == j.t = "list"

\* (x or ""): the value whose .strip() the handlers take
OrEmpty(j) == IF Truthy(j) THEN j ELSE JStr(<<>>)

Whitespace == {" "}

RECURSIVE LStrip(_)
LStrip(s) == IF s # <<>> /\ Head(s) \in Whitespace THEN LStrip(Tail(s)) ELSE s

RECURSIVE RStrip(_)
RStrip(s) ==
  IF s # <<>> /\ s[Len(s)] \in Whitespace THEN RStrip(SubSeq(s, 1, Len(s) - 1)) ELSE s

\* str.strip()
Strip(s) == RStrip(LStrip(s))

Digits == <<"0", "1", "2", "3", "4", "5", "6", "7", "8", "9">>

\* str(n) of a natural number
RECURSIVE Dec(_)
Dec(n) == IF n < 10 THEN <<Digits[n + 1]>> ELSE Dec(n \div 10) \o <<Digits[(n % 10) + 1]>>

\* datetime.utcnow().isoformat() at clock value t
IsoFormat(t) == <<"T">> \o Dec(t)

\* secrets.token_hex(4) for the random draw r
TokenHex(r) == <<"h">> \o Dec(r)

\* secrets.token_urlsafe(32): the n-th token handed out
TokenUrlsafe(n) == <<"k">> \o Dec(n)

\* ------------------------------------------------------------ the state
VARIABLES
  fs,        \* path -> [target, tmp, has_tmp]: the file and its '<path>.tmp'
  pc,        \* thread -> the step it is at ("idle": no request served yet)
  req,       \* thread -> the request it serves (or served last)
  loc,       \* thread -> its locals: current_user, write_json's path, data, handle
  resp,      \* thread -> the response to its request, once pc is "done"
  now,       \* the clock
  issued,    \* tokens handed out so far by secrets.token_urlsafe
  nreq,      \* requests received so far
  before,    \* thread -> the files' contents, revoked and signedUp when its
             \* request arrived
  revoked,   \* tokens whose logout has answered 200
  signedUp,  \* <<username, password>> of the signups that have answered 201
  owner      \* token -> the username given to the create_token that made it

vars == <<fs, pc, req, loc, resp, now, issued, nreq, before, revoked, signedUp, owner>>

USERS_FILE == "users.json"
TODOS_FILE == "todos.json"
SESSIONS_FILE == "sessions.json"
Paths == {USERS_FILE, TODOS_FILE, SESSIONS_FILE}

\* ------------------------------------------------------ file contents
\* json.dump(data, f) reaches the file in two writes (the buffer's flush
\* while dumping, and the flush of close): the head and the tail.
Chunk(doc, part) == [part |-> part, doc |-> doc]
Hole == [part |-> "hole", doc |-> JNull]

\* The complete text of a document.
Dump(doc) == <<Chunk(doc, "head"), Chunk(doc, "tail")>>

\* Whether json.load accepts a content: the complete text of one document.
Loads(content) ==
  /\ Len(content) = 2
  /\ content[1].part = "head"
  /\ content[2].part = "tail"
  /\ content[1].doc = content[2].doc

\* write(chunk) at offset off of a file holding content
WriteAt(content, off, chunk) ==
  [i \in 1..(IF Len(content) > off THEN Len(content) ELSE off + 1) |->
     IF i = off + 1 THEN chunk ELSE IF i <= Len(content) THEN content[i] ELSE Hole]

\* What read_json makes of a content of the file at path: the document, or
\* the "sensible default depending on file type" when json.load raises.
Loaded(content, path) ==
  IF Loads(content) THEN content[1].doc
  ELSE IF path = SESSIONS_FILE \/ path = TODOS_FILE THEN JDict(<<>>)
  ELSE JList(<<>>)

read_json(path) == Loaded(fs[path].target, path)

load_users == IF Truthy(read_json(USERS_FILE)) THEN read_json(USERS_FILE) ELSE JList(<<>>)

load_todos_map == IF Truthy(read_json(TODOS_FILE)) THEN read_json(TODOS_FILE) ELSE JDict(<<>>)

load_sessions ==
  IF Truthy(read_json(SESSIONS_FILE)) THEN read_json(SESSIONS_FILE) ELSE JDict(<<>>)

\* ------------------------------------------------------- responses
Response(status, body) == [status |-> status, body |-> body]
NoResponse == Response(0, <<>>)
Error(status, message) == Response(status, [error |-> message])
\* An exception no handler catches: Flask answers 500.
Unhandled(exception) == Response(500, [exception |-> exception])

NoRequest == [op |-> "none"]
NoLocals == [user |-> <<>>, path |-> "", data |-> JNull, handle |-> "none"]
Resting == {"idle", "done"}

\* Thread p answers r to request rq.
Return(p, rq, r) ==
  /\ pc' = [pc EXCEPT ![p] = "done"]
  /\ resp' = [resp EXCEPT ![p] = r]
  /\ revoked' = IF rq.op = "api_logout" /\ r.status = 200
                THEN revoked \cup {rq.header[2]} ELSE revoked
  /\ signedUp' = IF rq.op = "api_signup" /\ r.status = 201
                 THEN signedUp \cup {<<r.body.user.username, rq.body.password>>}
                 ELSE signedUp

\* Thread p goes on to step l.
Goto(p, l) ==
  /\ pc' = [pc EXCEPT ![p] = l]
  /\ UNCHANGED <<revoked, signedUp>>

\* A request arrives and goes to p, the first thread that is free.
Receive(p, rq) ==
  /\ pc[p] \in Resting
  /\ \A q \in 1..(p - 1) : pc[q] \notin Resting
  /\ nreq < MaxReqs
  /\ nreq' = nreq + 1
  /\ req' = [req EXCEPT ![p] = rq]
  /\ before' = IF "exported" \in DOMAIN rq THEN before
               ELSE [before EXCEPT ![p] =
                       [fs |-> [path \in Paths |-> fs[path].target],
                        revoked |-> revoked, signedUp |-> signedUp]]

\* ------------------------------------------------------- write_json
\* Thread p calls write_json(path, data) as the last statement before it
\* answers r.
Save(p, path, data, r) ==
  /\ loc' = [loc EXCEPT ![p].path = path, ![p].data = data]
  /\ resp' = [resp EXCEPT ![p] = r]
  /\ pc' = [pc EXCEPT ![p] = "write_open"]
  /\ UNCHANGED <<fs, revoked, signedUp>>

\* open(tmp, "w"): creates '<path>.tmp' or empties the one there is.
write_open(p) ==
  /\ pc[p] = "write_open"
  /\ fs' = [fs EXCEPT ![loc[p].path].tmp = <<>>, ![loc[p].path].has_tmp = TRUE]
  /\ loc' = [loc EXCEPT ![p].handle = "tmp"]
  /\ Goto(p, "write_dump")
  /\ UNCHANGED <<req, resp, now, issued, nreq, before, owner>>

\* The files after thread p wrote chunk at offset off through its handle:
\* the file it opened may meanwhile be the target (another thread's
\* os.replace moved it there) or no longer have a name.
Written(p, off, chunk) ==
  CASE loc[p].handle = "tmp" ->
         [fs EXCEPT ![loc[p].path].tmp = WriteAt(@, off, chunk)]
    [] loc[p].handle = "target" ->
         [fs EXCEPT ![loc[p].path].target = WriteAt(@, off, chunk)]
    [] OTHER -> fs

\* json.dump: the first part of the text reaches the file.
write_dump(p) ==
  /\ pc[p] = "write_dump"
  /\ fs' = Written(p, 0, Chunk(loc[p].data, "head"))
  /\ Goto(p, "write_close")
  /\ UNCHANGED <<req, loc, resp, now, issued, nreq, before, owner>>

\* Leaving the with block: the rest of the text is flushed, the file closed.
write_close(p) ==
  /\ pc[p] = "write_close"
  /\ fs' = Written(p, 1, Chunk(loc[p].data, "tail"))
  /\ loc' = [loc EXCEPT ![p].handle = "none"]
  /\ Goto(p, "write_replace")
  /\ UNCHANGED <<req, resp, now, issued, nreq, before, owner>>

\* The handles of the other threads after thread p's os.replace on path.
Renamed(p, path) ==
  [q \in Procs |->
     IF q # p /\ loc[q].path = path /\ loc[q].handle = "tmp"
     THEN [loc[q] EXCEPT !.handle = "target"]
     ELSE IF q # p /\ loc[q].path = path /\ loc[q].handle = "target"
     THEN [loc[q] EXCEPT !.handle = "unlinked"]
     ELSE loc[q]]

\* os.replace(tmp, path): FileNotFoundError when another thread's
\* os.replace has taken '<path>.tmp' away.
write_replace(p) ==
  /\ pc[p] = "write_replace"
  /\ IF fs[loc[p].path].has_tmp
     THEN /\ fs' = [fs EXCEPT ![loc[p].path] =
                      [target |-> @.tmp, tmp |-> <<>>, has_tmp |-> FALSE]]
          /\ loc' = Renamed(p, loc[p].path)
          /\ IF req[p].op = "api_signup" /\ loc[p].path = USERS_FILE
             THEN Goto(p, "api_signup_todos") /\ UNCHANGED resp
             ELSE Return(p, req[p], resp[p])
     ELSE /\ Return(p, req[p], Unhandled("FileNotFoundError"))
          /\ UNCHANGED <<fs, loc>>
  /\ UNCHANGED <<req, now, issued, nreq, before, owner>>

\* ----------------------------------------------------------- passwords
Salts == {"s1", "s2"}

\* The digest of a password under a salt: one-way, so kept symbolic.
Digest(salt, password) == <<"H", salt>> \o password

\* werkzeug's generate_password_hash: "<salt>$<digest>"
generate_password_hash(password, salt) == JStr(<<salt, "$">> \o Digest(salt, password.v))

\* werkzeug's check_password_hash
check_password_hash(pwhash, password) ==
  /\ pwhash.t = "str"
  /\ Len(pwhash.v) >= 2
  /\ pwhash.v[2] = "$"
  /\ SubSeq(pwhash.v, 3, Len(pwhash.v)) = Digest(pwhash.v[1], password.v)

\* x.strip() raises AttributeError when x is no string.
NoStrip(j) == OrEmpty(j).t # "str"

\* Mutant of FindUser: the search comes back with nobody.
FindNobody(users, username) == JNull

\* next((u for u in users if u.get("username") == username), None)
RECURSIVE FindUser(_, _)
FindUser(users, username) ==
  IF users = <<>> THEN JNull
  ELSE IF Get(Head(users).v, "username", JNull) = JStr(username) THEN Head(users)
  ELSE FindUser(Tail(users), username)

\* -------------------------------------------------------------- signup
api_signup(p, body) ==
  LET rq == [op |-> "api_signup", header |-> <<>>, body |-> body, task_id |-> <<>>]
      name == Get(body, "username", JNull)
      username == Strip(OrEmpty(name).v)
      password == OrEmpty(Get(body, "password", JNull))
      users == load_users
  IN
  /\ Receive(p, rq)
  /\ IF NoStrip(name)
     THEN Return(p, rq, Unhandled("AttributeError")) /\ UNCHANGED loc
     ELSE IF username = <<>> \/ ~Truthy(password)
     THEN Return(p, rq, Error(400, "username and password are required")) /\ UNCHANGED loc
     ELSE IF FindUser(users.v, username).t # "null"
     THEN Return(p, rq, Error(400, "username exists")) /\ UNCHANGED loc
     ELSE \E salt \in Salts :
            LET meta == JDict([username |-> JStr(username),
                               password_hash |-> generate_password_hash(password, salt),
                               createdAt |-> JStr(IsoFormat(now))])
                answer == Response(201, [ok |-> TRUE,
                            user |-> [username |-> username, createdAt |-> IsoFormat(now)]])
            IN  /\ loc' = [loc EXCEPT ![p] = [user |-> username, path |-> USERS_FILE,
                             data |-> JList(Append(users.v, meta)), handle |-> "none"]]
                /\ resp' = [resp EXCEPT ![p] = answer]
                /\ Goto(p, "write_open")
  /\ UNCHANGED <<fs, now, issued, owner>>

\* "initialize empty todos for this user", once save_users has returned
api_signup_todos(p) ==
  LET todos_map == load_todos_map
      username == loc[p].user
  IN
  /\ pc[p] = "api_signup_todos"
  /\ Save(p, TODOS_FILE,
          IF username \in DOMAIN todos_map.v THEN todos_map
          ELSE JDict(Put(todos_map.v, username, JList(<<>>))),
          resp[p])
  /\ UNCHANGED <<req, now, issued, nreq, before, owner>>

\* --------------------------------------------------------------- login
api_login(p, body) ==
  LET rq == [op |-> "api_login", header |-> <<>>, body |-> body, task_id |-> <<>>]
      name == Get(body, "username", JNull)
      username == Strip(OrEmpty(name).v)
      password == OrEmpty(Get(body, "password", JNull))
      user == FindUser(load_users.v, username)
  IN
  /\ issued + Cardinality({q \in Procs : pc[q] = "create_token"}) < MaxTokens
  /\ Receive(p, rq)
  /\ IF NoStrip(name)
     THEN Return(p, rq, Unhandled("AttributeError")) /\ UNCHANGED loc
     ELSE IF username = <<>> \/ ~Truthy(password)
     THEN Return(p, rq, Error(400, "username and password required")) /\ UNCHANGED loc
     ELSE IF user.t = "null"
             \/ ~check_password_hash(Get(user.v, "password_hash", JStr(<<>>)), password)
     THEN Return(p, rq, Error(401, "invalid credentials")) /\ UNCHANGED loc
     ELSE /\ loc' = [loc EXCEPT ![p] = [NoLocals EXCEPT !.user = username]]
          /\ resp' = [resp EXCEPT ![p] = Response(200, [ok |-> TRUE,
                        user |-> [username |-> username,
                                  createdAt |-> Get(user.v, "createdAt", JNull)]])]
          /\ Goto(p, "create_token")
  /\ UNCHANGED <<fs, now, issued, owner>>

create_token(p) ==
  LET sessions == load_sessions
      token == TokenUrlsafe(issued + 1)
      entry == JDict([username |-> JStr(loc[p].user), createdAt |-> JStr(IsoFormat(now))])
  IN
  /\ pc[p] = "create_token"
  /\ issued' = issued + 1
  /\ owner' = Put(owner, token, loc[p].user)
  /\ Save(p, SESSIONS_FILE, JDict(Put(sessions.v, token, entry)),
          Response(200, [ok |-> TRUE, token |-> token, user |-> resp[p].body.user]))
  /\ UNCHANGED <<req, now, nreq, before>>

\* ------------------------------------------------------ token_required
\* The Authorization header is the sequence of its words: <<>> when absent,
\* <<"Bearer", token>> as the client is meant to send it.
Bearer(token) == <<"Bearer", token>>

token_required(p, rq) ==
  LET header == rq.header
      sessions == load_sessions
  IN
  /\ Receive(p, rq)
  /\ IF ~(Len(header) = 2 /\ header[1] = "Bearer")
     THEN Return(p, rq, Error(401, "missing token")) /\ UNCHANGED loc
     ELSE IF ~Truthy(Get(sessions.v, header[2], JNull))
     THEN Return(p, rq, Error(401, "invalid token")) /\ UNCHANGED loc
     ELSE /\ loc' = [loc EXCEPT ![p] =
                       [NoLocals EXCEPT !.user = sessions.v[header[2]].v.username.v]]
          /\ resp' = [resp EXCEPT ![p] = NoResponse]
          /\ Goto(p, rq.op)
  /\ UNCHANGED <<fs, now, issued, owner>>

\* -------------------------------------------------------------- logout
api_logout(p) ==
  LET token == req[p].header[2]
      sessions == load_sessions
  IN
  /\ pc[p] = "api_logout"
  /\ IF token \in DOMAIN sessions.v
     THEN Save(p, SESSIONS_FILE, JDict(Del(sessions.v, token)), Response(200, [ok |-> TRUE]))
     ELSE Return(p, req[p], Response(200, [ok |-> TRUE])) /\ UNCHANGED <<fs, loc>>
  /\ UNCHANGED <<req, now, issued, nreq, before, owner>>

\* --------------------------------------------------------------- tasks
\* todos_map.get(username, [])
UserList(todos_map, username) == Get(todos_map.v, username, JList(<<>>))

\* "id_" + str(int(time.time()*1000)) + "_" + secrets.token_hex(4)
TaskId(millis, r) == <<"i", "d", "_">> \o Dec(millis) \o <<"_">> \o TokenHex(r)

\* t.get("id") == task_id, for an entry t that is an object
HasId(t, task_id) == Get(t.v, "id", JNull) = JStr(task_id)

\* Mutant of Inserted: lst.append(task).
Appended(lst, task) == lst \o <<task>>

\* lst.insert(0, task)
Inserted(lst, task) == <<task>> \o lst

api_get_tasks(p) ==
  /\ pc[p] = "api_get_tasks"
  /\ Return(p, req[p], Response(200, [todos |-> UserList(load_todos_map, loc[p].user)]))
  /\ UNCHANGED <<fs, req, loc, now, issued, nreq, before, owner>>

api_create_task(p) ==
  LET body == req[p].body
      username == loc[p].user
      title == Strip(OrEmpty(Get(body, "title", JNull)).v)
      todos_map == load_todos_map
      lst == UserList(todos_map, username)
  IN
  /\ pc[p] = "api_create_task"
  /\ IF NoStrip(Get(body, "title", JNull))
     THEN Return(p, req[p], Unhandled("AttributeError")) /\ UNCHANGED <<fs, loc>>
     ELSE IF title = <<>>
     THEN Return(p, req[p], Error(400, "title required")) /\ UNCHANGED <<fs, loc>>
     ELSE \E r \in 0..MaxRand :
            LET task == JDict([id |-> JStr(TaskId(now, r)),
                               title |-> JStr(title),
                               done |-> JBool(Truthy(Get(body, "done", JBool(FALSE)))),
                               important |-> JBool(Truthy(Get(body, "important", JBool(FALSE)))),
                               createdAt |-> JStr(IsoFormat(now))])
            IN  Save(p, TODOS_FILE,
                     JDict(Put(todos_map.v, username, JList(Inserted(lst.v, task)))),
                     Response(201, [ok |-> TRUE, task |-> task]))
  /\ UNCHANGED <<req, now, issued, nreq, before, owner>>

\* The scan of api_update_task, from entry i on: the index of the first
\* entry whose id is task_id, 0 when there is none, -1 when the scan comes to
\* an entry that is no object first (t.get raises AttributeError).
RECURSIVE FirstMatch(_, _, _)
FirstMatch(lst, task_id, i) ==
  IF i > Len(lst) THEN 0
  ELSE IF lst[i].t # "dict" THEN -1
  ELSE IF HasId(lst[i], task_id) THEN i
  ELSE FirstMatch(lst, task_id, i + 1)

\* Mutant of Patched: t.update(body), every key of the patch.
PatchedAll(t, body) ==
  JDict([k \in DOMAIN t.v \cup DOMAIN body |-> IF k \in DOMAIN body THEN body[k] ELSE t.v[k]])

\* "update allowed fields"
Patched(t, body) ==
  LET t1 == IF "title" \in DOMAIN body THEN Put(t.v, "title", body["title"]) ELSE t.v
      t2 == IF "done" \in DOMAIN body THEN Put(t1, "done", JBool(Truthy(body["done"]))) ELSE t1
      t3 == IF "important" \in DOMAIN body
            THEN Put(t2, "important", JBool(Truthy(body["important"]))) ELSE t2
  IN  JDict(t3)

api_update_task(p) ==
  LET body == req[p].body
      username == loc[p].user
      todos_map == load_todos_map
      lst == UserList(todos_map, username)
      i == FirstMatch(lst.v, req[p].task_id, 1)
      t == Patched(lst.v[i], body)
  IN
  /\ pc[p] = "api_update_task"
  /\ IF i = -1
     THEN Return(p, req[p], Unhandled("AttributeError")) /\ UNCHANGED <<fs, loc>>
     ELSE IF i = 0
     THEN Return(p, req[p], Error(404, "task not found")) /\ UNCHANGED <<fs, loc>>
     ELSE Save(p, TODOS_FILE,
               JDict(Put(todos_map.v, username, JList([lst.v EXCEPT ![i] = t]))),
               Response(200, [ok |-> TRUE, task |-> t]))
  /\ UNCHANGED <<req, now, issued, nreq, before, owner>>

\* [t for t in lst if t.get("id") != task_id]
RECURSIVE WithoutId(_, _)
WithoutId(lst, task_id) ==
  IF lst = <<>> THEN <<>>
  ELSE IF HasId(Head(lst), task_id) THEN WithoutId(Tail(lst), task_id)
  ELSE <<Head(lst)>> \o WithoutId(Tail(lst), task_id)

\* Mutant of api_delete_task: a todos file that cannot be read fails the
\* request.
api_delete_task_strict(p) ==
  LET username == loc[p].user
      todos_map == load_todos_map
      lst == UserList(todos_map, username)
  IN
  /\ pc[p] = "api_delete_task"
  /\ IF ~Loads(fs[TODOS_FILE].target) \/ \E i \in 1..Len(lst.v) : lst.v[i].t # "dict"
     THEN Return(p, req[p], Unhandled("JSONDecodeError")) /\ UNCHANGED <<fs, loc>>
     ELSE Save(p, TODOS_FILE,
               JDict(Put(todos_map.v, username, JList(WithoutId(lst.v, req[p].task_id)))),
               Response(200, [ok |-> TRUE]))
  /\ UNCHANGED <<req, now, issued, nreq, before, owner>>

api_delete_task(p) ==
  LET username == loc[p].user
      todos_map == load_todos_map
      lst == UserList(todos_map, username)
  IN
  /\ pc[p] = "api_delete_task"
  /\ IF \E i \in 1..Len(lst.v) : lst.v[i].t # "dict"
     THEN Return(p, req[p], Unhandled("AttributeError")) /\ UNCHANGED <<fs, loc>>
     ELSE Save(p, TODOS_FILE,
               JDict(Put(todos_map.v, username, JList(WithoutId(lst.v, req[p].task_id)))),
               Response(200, [ok |-> TRUE]))
  /\ UNCHANGED <<req, now, issued, nreq, before, owner>>

\* t["id"] raises on an entry that is no object (TypeError) or has no id
\* (KeyError), and the dict comprehension on an id that cannot be hashed.
Keyed(t) == t.t = "dict" /\ "id" \in DOMAIN t.v /\ t.v["id"].t \notin {"list", "dict"}

\* id_to_task[i] of {t["id"]: t for t in lst}: the last entry with the id
IdToTask(lst, i) ==
  lst[CHOOSE k \in 1..Len(lst) :
        /\ lst[k].v["id"] = i
        /\ \A m \in (k + 1)..Len(lst) : lst[m].v["id"] # i]

\* [id_to_task[i] for i in order if i in id_to_task]
RECURSIVE Reordered(_, _)
Reordered(lst, order) ==
  IF order = <<>> THEN <<>>
  ELSE IF \E k \in 1..Len(lst) : lst[k].v["id"] = Head(order)
  THEN <<IdToTask(lst, Head(order))>> \o Reordered(lst, Tail(order))
  ELSE Reordered(lst, Tail(order))

api_reorder(p) ==
  LET username == loc[p].user
      order == Get(req[p].body, "order", JNull)
      todos_map == load_todos_map
      lst == UserList(todos_map, username)
  IN
  /\ pc[p] = "api_reorder"
  /\ IF ~IsList(order)
     THEN Return(p, req[p], Error(400, "order must be list of ids")) /\ UNCHANGED <<fs, loc>>
     ELSE IF \E k \in 1..Len(lst.v) : ~Keyed(lst.v[k])
     THEN Return(p, req[p], Unhandled("KeyError")) /\ UNCHANGED <<fs, loc>>
     ELSE IF \E k \in 1..Len(order.v) : order.v[k].t \in {"list", "dict"}
     THEN Return(p, req[p], Unhandled("TypeError")) /\ UNCHANGED <<fs, loc>>
     ELSE Save(p, TODOS_FILE,
               JDict(Put(todos_map.v, username, JList(Reordered(lst.v, order.v)))),
               Response(200, [ok |-> TRUE]))
  /\ UNCHANGED <<req, now, issued, nreq, before, owner>>

\* Mutant of api_export: the export leaves out the first task.
api_export_tail(p) ==
  /\ pc[p] = "api_export"
  /\ Return(p, req[p], Response(200,
        [meta |-> [user |-> loc[p].user, exportedAt |-> IsoFormat(now)],
         todos |-> LET lst == UserList(load_todos_map, loc[p].user)
                   IN  IF lst.v = <<>> THEN lst ELSE JList(Tail(lst.v))]))
  /\ UNCHANGED <<fs, req, loc, now, issued, nreq, before, owner>>

api_export(p) ==
  /\ pc[p] = "api_export"
  /\ Return(p, req[p], Response(200,
        [meta |-> [user |-> loc[p].user, exportedAt |-> IsoFormat(now)],
         todos |-> UserList(load_todos_map, loc[p].user)]))
  /\ UNCHANGED <<fs, req, loc, now, issued, nreq, before, owner>>

\* Mutant of api_import: the payload is stored before it is looked at.
api_import_unchecked(p) ==
  LET username == loc[p].user
      todos == Get(req[p].body, "todos", JNull)
      todos_map == load_todos_map
  IN
  /\ pc[p] = "api_import"
  /\ Save(p, TODOS_FILE, JDict(Put(todos_map.v, username, todos)),
          IF IsList(todos) THEN Response(200, [ok |-> TRUE])
          ELSE Error(400, "invalid payload"))
  /\ UNCHANGED <<req, now, issued, nreq, before, owner>>

api_import(p) ==
  LET username == loc[p].user
      todos == Get(req[p].body, "todos", JNull)
      todos_map == load_todos_map
  IN
  /\ pc[p] = "api_import"
  /\ IF ~IsList(todos)
     THEN Return(p, req[p], Error(400, "invalid payload")) /\ UNCHANGED <<fs, loc>>
     ELSE Save(p, TODOS_FILE, JDict(Put(todos_map.v, username, todos)),
               Response(200, [ok |-> TRUE]))
  /\ UNCHANGED <<req, now, issued, nreq, before, owner>>

\* The clock advances.
Tick ==
  /\ now < MaxClock
  /\ now' = now + 1
  /\ UNCHANGED <<fs, pc, req, loc, resp, issued, nreq, before, revoked, signedUp, owner>>

\* ------------------------------------------------- the initial states
\* The server starts on the files it finds (it writes "[]" and "{}" only
\* where a file is missing): on none, or on those an earlier run has left.
Alice == <<"a">>
Bob == <<"b">>
Carol == <<"c">>
Pw1 == <<"p">>
Pw2 == <<"q">>

Task(id, title, done, important) ==
  JDict([id |-> JStr(id), title |-> JStr(title), done |-> JBool(done),
         important |-> JBool(important), createdAt |-> JStr(IsoFormat(0))])

IdA == TaskId(0, 0)
IdB == TaskId(0, 1)
IdZ == <<"z">>
TaskA == Task(IdA, <<"x">>, FALSE, FALSE)
TaskB == Task(IdB, <<"y">>, TRUE, FALSE)

User(username, password, salt) ==
  JDict([username |-> JStr(username),
         password_hash |-> generate_password_hash(JStr(password), salt),
         createdAt |-> JStr(IsoFormat(0))])

Session(username) == JDict([username |-> JStr(username), createdAt |-> JStr(IsoFormat(0))])

File(doc) == [target |-> Dump(doc), tmp |-> <<>>, has_tmp |-> FALSE]

FreshFiles ==
  [path \in Paths |-> IF path = USERS_FILE THEN File(JList(<<>>)) ELSE File(JDict(<<>>))]

\* The lists an earlier run has left to Alice and to Bob.
SeedLists == {<<<<>>, <<>>>>, <<<<TaskA, TaskB>>, <<TaskB>>>>}

SeededFiles(lists) ==
  [path \in Paths |->
     CASE path = USERS_FILE ->
            File(JList(<<User(Alice, Pw1, "s1"), User(Bob, Pw2, "s2")>>))
       [] path = SESSIONS_FILE ->
            File(JDict(TokenUrlsafe(1) :> Session(Alice) @@ TokenUrlsafe(2) :> Session(Bob)))
       [] OTHER ->
            File(JDict(Alice :> JList(lists[1]) @@ Bob :> JList(lists[2])))]

Init ==
  /\ \/ fs = FreshFiles /\ issued = 0
     \/ \E lists \in SeedLists : fs = SeededFiles(lists) /\ issued = 2
  /\ pc = [p \in Procs |-> "idle"]
  /\ req = [p \in Procs |-> NoRequest]
  /\ loc = [p \in Procs |-> NoLocals]
  /\ resp = [p \in Procs |-> NoResponse]
  /\ now = 0
  /\ nreq = 0
  /\ before = [p \in Procs |->
                 [fs |-> [path \in Paths |-> fs[path].target],
                  revoked |-> {}, signedUp |-> {}]]
  /\ revoked = {}
  /\ signedUp = {}
  /\ owner = IF issued = 0 THEN <<>>
             ELSE TokenUrlsafe(1) :> Alice @@ TokenUrlsafe(2) :> Bob

\* ------------------------------------------------------- the requests
Credentials ==
  {<<>>,
   [username |-> JStr(Alice), password |-> JStr(Pw1)],
   [username |-> JStr(Alice), password |-> JStr(Pw2)],
   [username |-> JStr(<<" ", "c", " ">>), password |-> JStr(Pw1)],
   [username |-> JStr(Carol), password |-> JStr(<<>>)],
   [username |-> JStr(<<" ">>), password |-> JStr(Pw1)]}

AliceToken == TokenUrlsafe(1)
BobToken == TokenUrlsafe(2)

\* Headers that token_required turns down, unless a login has issued the
\* third token.
BadHeaders == {Bearer(TokenUrlsafe(3)), <<"Basic", AliceToken>>, <<>>}

Request(op, header, task_id, body) ==
  [op |-> op, header |-> header, body |-> body, task_id |-> task_id]

CreateBodies ==
  {<<>>,
   [title |-> JStr(<<" ">>)],
   [title |-> JStr(<<" ", "n", " ">>)],
   [title |-> JStr(<<"m">>), done |-> JStr(<<"n", "o">>), important |-> JNum(0)]}

UpdateBodies ==
  {<<>>,
   [done |-> JBool(TRUE)],
   [title |-> JStr(<<>>), id |-> JStr(IdZ), createdAt |-> JStr(IsoFormat(1))],
   [important |-> JNum(1), done |-> JNull]}

Orders ==
  {<<>>, [order |-> JStr(IdA)]} \cup
  {[order |-> JList(o)] :
     o \in {<<>>, <<JStr(IdB), JStr(IdA)>>, <<JStr(IdA), JStr(IdA)>>, <<JStr(IdZ), JStr(IdB)>>,
            <<JStr(IdA), JList(<<>>)>>}}

Payloads ==
  {<<>>, [todos |-> JDict(<<>>)]} \cup
  {[todos |-> JList(l)] :
     l \in {<<>>, <<TaskB, TaskA>>, <<TaskA, Task(IdA, <<"w">>, TRUE, TRUE)>>,
            <<JNum(7), TaskA>>, <<JDict([title |-> JStr(<<"v">>)]), TaskB>>}}

TaskRequests(header) ==
  {Request("api_get_tasks", header, <<>>, <<>>), Request("api_export", header, <<>>, <<>>)}
  \cup {Request("api_create_task", header, <<>>, b) : b \in CreateBodies}
  \cup {Request("api_update_task", header, i, b) : i \in {IdA, IdB, IdZ}, b \in UpdateBodies}
  \cup {Request("api_delete_task", header, i, <<>>) : i \in {IdA, IdB, IdZ}}
  \cup {Request("api_reorder", header, <<>>, b) : b \in Orders}
  \cup {Request("api_import", header, <<>>, b) : b \in Payloads}

\* The client sends back the todos that its export has just returned.
Reimport(p) ==
  /\ pc[p] = "done"
  /\ req[p].op = "api_export"
  /\ resp[p].status = 200
  /\ token_required(p, [op |-> "api_import", header |-> req[p].header,
                        body |-> [todos |-> resp[p].body.todos], task_id |-> <<>>,
                        exported |-> TRUE])

write_json(p) == write_open(p) \/ write_dump(p) \/ write_close(p) \/ write_replace(p)

Tasks(p) ==
  \/ api_get_tasks(p) \/ api_create_task(p) \/ api_update_task(p) \/ api_delete_task(p)
  \/ api_reorder(p) \/ api_export(p) \/ api_import(p)

Accounts(p) ==
  \/ \E body \in Credentials : api_signup(p, body)
  \/ api_signup_todos(p)
  \/ \E body \in Credentials : api_login(p, body)
  \/ create_token(p)
  \/ api_logout(p)

LogoutRequests ==
  {Request("api_logout", h, <<>>, <<>>) : h \in {Bearer(AliceToken)} \cup BadHeaders}

\* Alice's task requests, a few of Bob's, and requests with no valid token.
SerialRequests ==
  TaskRequests(Bearer(AliceToken))
  \cup {Request("api_get_tasks", h, <<>>, <<>>) : h \in {Bearer(BobToken)} \cup BadHeaders}
  \cup {Request("api_create_task", Bearer(BobToken), <<>>, [title |-> JStr(<<"m">>)])}
  \cup LogoutRequests

\* One request at a time: the server with a single thread.
NextSerial ==
  \/ Tick
  \/ Accounts(1)
  \/ \E rq \in SerialRequests : token_required(1, rq)
  \/ Reimport(1)
  \/ Tasks(1)
  \/ write_json(1)

SpecSerial == Init /\ [][NextSerial]_vars

\* One request at a time, and none of them an import: Alice's creates,
\* updates, deletes and reorders.
EditRequests ==
  {rq \in TaskRequests(Bearer(AliceToken)) :
     rq.op \in {"api_create_task", "api_update_task", "api_delete_task", "api_reorder"}}

NextEdits ==
  \/ Tick
  \/ \E rq \in EditRequests : token_required(1, rq)
  \/ api_create_task(1) \/ api_update_task(1) \/ api_delete_task(1) \/ api_reorder(1)
  \/ write_json(1)

SpecEdits == Init /\ [][NextEdits]_vars

\* ------------------------------------------------ the threaded server
\* Accounts: signups, logins and logouts on two threads.
SignupBodies ==
  {<<>>, [username |-> JStr(Alice), password |-> JStr(Pw1)],
   [username |-> JStr(<<" ", "c", " ">>), password |-> JStr(Pw1)]}

LoginBodies ==
  {<<>>, [username |-> JStr(Alice), password |-> JStr(Pw1)],
   [username |-> JStr(Alice), password |-> JStr(Pw2)]}

NextAccounts ==
  \E p \in Procs :
    \/ \E body \in SignupBodies : api_signup(p, body)
    \/ api_signup_todos(p)
    \/ \E body \in LoginBodies : api_login(p, body)
    \/ create_token(p)
    \/ \E rq \in LogoutRequests : token_required(p, rq)
    \/ api_logout(p)
    \/ write_json(p)

SpecAccounts == Init /\ [][NextAccounts]_vars

\* Tasks: the task requests of Alice and of Bob on two threads, all within
\* one tick of the clock.
ThreadedRequests ==
  {Request("api_get_tasks", h, <<>>, <<>>) :
     h \in {Bearer(AliceToken), Bearer(BobToken), <<>>}}
  \cup {Request("api_create_task", h, <<>>, [title |-> JStr(<<" ", "n", " ">>)]) :
          h \in {Bearer(AliceToken), Bearer(BobToken)}}
  \cup {Request("api_update_task", Bearer(AliceToken), IdA, [done |-> JBool(TRUE)]),
        Request("api_delete_task", Bearer(BobToken), IdB, <<>>),
        Request("api_reorder", Bearer(AliceToken), <<>>,
                [order |-> JList(<<JStr(IdB), JStr(IdA)>>)]),
        Request("api_import", Bearer(BobToken), <<>>, [todos |-> JList(<<TaskA>>)]),
        Request("api_export", Bearer(AliceToken), <<>>, <<>>)}

NextTasks ==
  \E p \in Procs :
    \/ \E rq \in ThreadedRequests : token_required(p, rq)
    \/ Tasks(p)
    \/ write_json(p)

SpecTasks == Init /\ [][NextTasks]_vars

\* The server: every endpoint, on every thread.
Next ==
  \/ Tick
  \/ \E p \in Procs :
       \/ Accounts(p)
       \/ \E rq \in SerialRequests \cup ThreadedRequests : token_required(p, rq)
       \/ Reimport(p)
       \/ Tasks(p)
       \/ write_json(p)

Spec == Init /\ [][Next]_vars

\* =============================================================== claims
\* The list that List returns to username on a content of todos.json.
StoredList(content, username) ==
  LET doc == Loaded(content, TODOS_FILE)
  IN  UserList(IF Truthy(doc) THEN doc ELSE JDict(<<>>), username).v

\* The list of the user of thread p's request: now, and when the request arrived.
ListNow(p) == StoredList(fs[TODOS_FILE].target, loc[p].user)
ListBefore(p) == StoredList(before[p].fs[TODOS_FILE], loc[p].user)

\* Thread p has answered a request to op that token_required let through.
Answered(p, op) == pc[p] = "done" /\ req[p].op = op /\ resp[p].status # 401

\* C1: the os.replace that ends a task request of one user leaves the list
\* of every other user in todos.json as it was right before it.
WritesKeepOtherUsers ==
  [][\A p \in Procs :
       (/\ pc[p] = "write_replace"
        /\ pc'[p] = "done"
        /\ loc[p].path = TODOS_FILE
        /\ resp'[p].status \in {200, 201})
         => \A username \in {Alice, Bob} \ {loc[p].user} :
              StoredList(fs'[TODOS_FILE].target, username)
                = StoredList(fs[TODOS_FILE].target, username)]_vars

\* C2: a request that token_required lets through is authenticated as the
\* username given to the create_token that made its token, and its token is
\* not one whose logout had answered 200 when the request arrived.
TokensAuthenticateUntilLogout ==
  \A p \in Procs :
    pc[p] = "api_logout"
      => /\ req[p].header[2] \in DOMAIN owner
         /\ loc[p].user = owner[req[p].header[2]]
         /\ req[p].header[2] \notin before[p].revoked

\* C3: a login that arrives after the signup of its username has answered
\* 201 answers 200 with a token when it gives the password of the signup,
\* and 401 when it gives another.
LoginAfterSignup ==
  \A p \in Procs :
    (pc[p] = "done" /\ req[p].op = "api_login" /\ req[p].body # <<>>)
      => \A su \in before[p].signedUp :
           su[1] = Strip(req[p].body.username.v)
             => IF req[p].body.password = su[2]
                THEN resp[p].status = 200 /\ "token" \in DOMAIN resp[p].body
                ELSE resp[p].status = 401

\* C4: every file holds, at every moment, the complete text of one document
\* that was passed to write_json (or that the file held at the start).
FilesAreComplete == \A path \in Paths : Loads(fs[path].target)

\* C5: a request that answers 400, 401 or 404 leaves the contents of
\* users.json, todos.json and sessions.json as they were when it arrived.
ErrorsLeaveFiles ==
  \A p \in Procs :
    (pc[p] = "done" /\ resp[p].status \in {400, 401, 404})
      => \A path \in Paths : fs[path].target = before[p].fs[path]

\* C5 witness: an update of an unknown id has answered 404 on a list that
\* holds tasks.
ErrorsLeaveFilesWitness ==
  /\ pc[1] = "done"
  /\ req[1].op = "api_update_task"
  /\ resp[1].status = 404
  /\ ListNow(1) # <<>>

\* C6: a create whose title is not empty once trimmed answers 201, and the
\* stored list is then the new task followed by the list as it was; the task
\* holds the trimmed title, and done and important are false unless given
\* (and bool() of what was given otherwise).
CreatePrepends ==
  \A p \in Procs :
    LET body == req[p].body
        title == Get(body, "title", JNull)
        task == resp[p].body.task
    IN  (Answered(p, "api_create_task") /\ title.t = "str" /\ Strip(title.v) # <<>>)
          => /\ resp[p].status = 201
             /\ ListNow(p) = <<task>> \o ListBefore(p)
             /\ task.v["title"] = JStr(Strip(title.v))
             /\ \A k \in {"done", "important"} :
                  task.v[k] = IF k \in DOMAIN body THEN JBool(Truthy(body[k])) ELSE JBool(FALSE)

\* C6 witness: a create with done given has answered 201 on a list that held
\* tasks already.
CreatePrependsWitness ==
  /\ Answered(1, "api_create_task")
  /\ resp[1].status = 201
  /\ "done" \in DOMAIN req[1].body
  /\ Len(ListBefore(1)) = 2

\* The first entry of lst that is a task with the id, 0 when there is none.
FirstWithId(lst, task_id) ==
  IF \E k \in 1..Len(lst) : lst[k].t = "dict" /\ HasId(lst[k], task_id)
  THEN CHOOSE k \in 1..Len(lst) :
         /\ lst[k].t = "dict" /\ HasId(lst[k], task_id)
         /\ \A m \in 1..(k - 1) : ~(lst[m].t = "dict" /\ HasId(lst[m], task_id))
  ELSE 0

Settable == {"title", "done", "important"}

\* C7: an update of an id the list holds keeps the length and the order of
\* the list and every entry but the first with that id; of that entry it
\* keeps every field that is not one of title, done, important given in the
\* patch (id and createdAt among them), and when it answers 200 the given
\* ones hold the patch's values.
UpdateFrame ==
  \A p \in Procs :
    LET body == req[p].body
        old == ListBefore(p)
        new == ListNow(p)
        i == FirstWithId(old, req[p].task_id)
        given == Settable \cap DOMAIN body
    IN  (Answered(p, "api_update_task") /\ i # 0)
          => /\ Len(new) = Len(old)
             /\ \A k \in 1..Len(old) : k # i => new[k] = old[k]
             /\ new[i].t = "dict"
             /\ DOMAIN new[i].v \ given = DOMAIN old[i].v \ given
             /\ \A key \in DOMAIN old[i].v \ given : new[i].v[key] = old[i].v[key]
             /\ resp[p].status = 200 =>
                  \A key \in given :
                    new[i].v[key] = IF key = "title" THEN body[key]
                                    ELSE JBool(Truthy(body[key]))

\* C7 witness: an update whose patch also names id and createdAt has
\* answered 200 on a list that holds the id twice.
UpdateFrameWitness ==
  /\ Answered(1, "api_update_task")
  /\ resp[1].status = 200
  /\ "id" \in DOMAIN req[1].body
  /\ Len(ListBefore(1)) = 2
  /\ HasId(ListBefore(1)[2], req[1].task_id)
  /\ FirstWithId(ListBefore(1), req[1].task_id) = 1

\* Whether lst holds a task whose id is the JSON value i.
HoldsId(lst, i) ==
  \E k \in 1..Len(lst) : lst[k].t = "dict" /\ "id" \in DOMAIN lst[k].v /\ lst[k].v["id"] = i

\* The ids of order that lst holds, in the order of order.
RECURSIVE Kept(_, _)
Kept(order, lst) ==
  IF order = <<>> THEN <<>>
  ELSE IF HoldsId(lst, Head(order)) THEN <<Head(order)>> \o Kept(Tail(order), lst)
  ELSE Kept(Tail(order), lst)

\* C8: a reorder with a list answers 200 and leaves, for every id of order
\* that the list held and in the order of order, a task the list held under
\* that id; the other tasks are dropped, repeated ids give repeated entries.
ReorderRebuilds ==
  \A p \in Procs :
    LET order == Get(req[p].body, "order", JNull)
        old == ListBefore(p)
        new == ListNow(p)
        kept == Kept(order.v, old)
    IN  (Answered(p, "api_reorder") /\ IsList(order))
          => /\ resp[p].status = 200
             /\ Len(new) = Len(kept)
             /\ \A k \in 1..Len(kept) :
                  /\ \E m \in 1..Len(old) : old[m] = new[k]
                  /\ new[k].t = "dict" /\ "id" \in DOMAIN new[k].v /\ new[k].v["id"] = kept[k]

\* The entries of lst that are not a task with the id, in their order.
RECURSIVE Others(_, _)
Others(lst, task_id) ==
  IF lst = <<>> THEN <<>>
  ELSE IF Head(lst).t = "dict" /\ HasId(Head(lst), task_id) THEN Others(Tail(lst), task_id)
  ELSE <<Head(lst)>> \o Others(Tail(lst), task_id)

\* C9: a delete answers 200 and leaves the entries with another id in their
\* order: the whole list when it did not hold the id, so that a second
\* delete of the id changes nothing.
DeleteIdempotent ==
  \A p \in Procs :
    Answered(p, "api_delete_task")
      => /\ resp[p].status = 200
         /\ ListNow(p) = Others(ListBefore(p), req[p].task_id)
         /\ FirstWithId(ListBefore(p), req[p].task_id) = 0 => ListNow(p) = ListBefore(p)

\* C10: an import of the todos that the export before it returned answers
\* 200 and leaves the stored list as it was before the export.
ExportImportRoundTrip ==
  \A p \in Procs :
    (pc[p] = "done" /\ "exported" \in DOMAIN req[p])
      => resp[p].status = 200 /\ ListNow(p) = ListBefore(p)

\* C10 witness: the round trip is done on a list of two entries, one of
\* them no task.
ExportImportRoundTripWitness ==
  /\ pc[1] = "done"
  /\ "exported" \in DOMAIN req[1]
  /\ resp[1].status = 200
  /\ Len(ListNow(1)) = 2
  /\ \E k \in 1..2 : ListNow(1)[k].t # "dict"

\* C11: two creates of one user that both answered 201, one on each thread,
\* were given different task ids.
CreatesGetDistinctIds ==
  \A p, q \in Procs :
    (/\ p # q
     /\ Answered(p, "api_create_task") /\ resp[p].status = 201
     /\ Answered(q, "api_create_task") /\ resp[q].status = 201
     /\ loc[p].user = loc[q].user)
      => resp[p].body.task.v["id"] # resp[q].body.task.v["id"]

\* C12: every username whose signup has answered 201 is a key of the todos
\* mapping that load_todos_map reads.
SignedUpHaveLists == \A su \in signedUp : su[1] \in DOMAIN load_todos_map.v

\* A login has answered 200 with token, and its thread has served no other
\* request since.
Returned(token) ==
  \E p \in Procs :
    /\ pc[p] = "done" /\ req[p].op = "api_login" /\ resp[p].status = 200
    /\ resp[p].body.token = token

\* A logout that presents token has arrived and not answered yet.
LoggingOut(token) ==
  \E p \in Procs :
    pc[p] \notin Resting /\ req[p].op = "api_logout" /\ req[p].header = Bearer(token)

\* C13: a token that a login has returned is in the sessions document, under
\* the username of that login, as long as no logout presenting it has
\* arrived.
LoginTokensStay ==
  \A token \in DOMAIN owner :
    (Returned(token) /\ token \notin revoked /\ ~LoggingOut(token))
      => /\ token \in DOMAIN load_sessions.v
         /\ load_sessions.v[token].v.username = JStr(owner[token])

\* Whether every entry of order can be hashed (is no list and no object).
Hashable(order) == \A k \in 1..Len(order) : order[k].t \notin {"list", "dict"}

\* C14: an update, a delete or a reorder (its order, when a list, holding
\* strings) answers 200, 400, 401 or 404, on whatever list an import has
\* left.
EditsAfterImportAnswer ==
  \A p \in Procs :
    LET order == Get(req[p].body, "order", JNull)
    IN  (/\ pc[p] = "done"
         /\ req[p].op \in {"api_update_task", "api_delete_task", "api_reorder"}
         /\ IsList(order) => Hashable(order.v))
          => resp[p].status \in {200, 400, 401, 404}

\* C15: the entries of a user's stored list that have an id have different
\* ids.
StoredIdsDistinct ==
  \A username \in {Alice, Bob} :
    LET lst == StoredList(fs[TODOS_FILE].target, username)
    IN  \A i, j \in 1..Len(lst) :
          (/\ i < j
           /\ lst[i].t = "dict" /\ "id" \in DOMAIN lst[i].v
           /\ lst[j].t = "dict" /\ "id" \in DOMAIN lst[j].v)
            => lst[i].v["id"] # lst[j].v["id"]

\* C16: every entry of a user's stored list has a title that is a string
\* and is not empty once trimmed.
TitlesNotEmpty ==
  \A username \in {Alice, Bob} :
    LET lst == StoredList(fs[TODOS_FILE].target, username)
    IN  \A i \in 1..Len(lst) :
          /\ lst[i].t = "dict"
          /\ "title" \in DOMAIN lst[i].v
          /\ lst[i].v["title"].t = "str"
          /\ Strip(lst[i].v["title"].v) # <<>>

\* C17: no two records of the users document that load_users reads have the
\* same username.
UsersUnique ==
  LET users == load_users.v
  IN  \A i, j \in 1..Len(users) :
        i < j => users[i].v["username"] # users[j].v["username"]

\* C17 witness: two signups of one username have both passed the 'username
\* exists' check and answered 201, and the users document holds the name.
UsersUniqueWitness ==
  /\ \A p \in {1, 2} : pc[p] = "done" /\ req[p].op = "api_signup" /\ resp[p].status = 201
  /\ resp[1].body.user.username = resp[2].body.user.username
  /\ FindUser(load_users.v, resp[1].body.user.username).t = "dict"

\* C18: the username of every entry of the sessions document that
\* load_sessions reads is the username of a record of the users document
\* that load_users reads.
SessionsHaveUsers ==
  \A token \in DOMAIN load_sessions.v :
    FindUser(load_users.v, load_sessions.v[token].v.username.v).t = "dict"

\* Thread p has answered 201 to a create.
CreatedBy(p) == Answered(p, "api_create_task") /\ resp[p].status = 201

\* Whether lst holds the entry t.
Holds(lst, t) == \E k \in 1..Len(lst) : lst[k] = t

\* C19: when two threads have answered 201 to creates of one user and no
\* other thread has served a request, todos.json is the document of the one
\* that wrote last: complete, the user's list headed by that one's task.
LastWriterWins ==
  \A p, q \in Procs :
    (/\ p # q
     /\ CreatedBy(p) /\ CreatedBy(q)
     /\ loc[p].user = loc[q].user
     /\ \A r \in Procs \ {p, q} : pc[r] = "idle")
      => LET lst == StoredList(fs[TODOS_FILE].target, loc[p].user)
         IN  /\ Loads(fs[TODOS_FILE].target)
             /\ lst # <<>>
             /\ lst[1] \in {resp[p].body.task, resp[q].body.task}

\* C19 witness, the lost update: the only two requests served are creates of
\* one user that overlapped, both have answered 201 with different tasks,
\* and the stored list holds one of the two tasks and not the other.
LostUpdate ==
  LET lst == StoredList(fs[TODOS_FILE].target, loc[1].user)
  IN  /\ nreq = 2
      /\ CreatedBy(1) /\ CreatedBy(2)
      /\ loc[1].user = loc[2].user
      /\ resp[1].body.task # resp[2].body.task
      /\ Holds(lst, resp[1].body.task) # Holds(lst, resp[2].body.task)

\* The handlers of the task requests that change the list.
Mutating ==
  {"api_create_task", "api_update_task", "api_delete_task", "api_reorder", "api_import"}

\* Thread p's handler runs while todos.json cannot be parsed.
ReadsUnreadable(p) ==
  /\ pc[p] \in Mutating
  /\ pc'[p] # pc[p]
  /\ ~Loads(fs[TODOS_FILE].target)

\* Thread p's handler goes on to write a todos document that holds the
\* entry of its user and no other, its success status being the answer that
\* follows write_json.
WritesOwnEntryOnly(p) ==
  /\ pc'[p] = "write_open"
  /\ loc'[p].path = TODOS_FILE
  /\ loc'[p].data.t = "dict"
  /\ DOMAIN loc'[p].data.v = {loc[p].user}
  /\ resp'[p].status = IF pc[p] = "api_create_task" THEN 201 ELSE 200

====
